---- MODULE Spec2Model ----
(***************************************************************************)
(* A model of src/lambda/lambda_function.py: the upload handler behind an  *)
(* HTTP API.  One invocation of lambda_handler is one step.  Text that the *)
(* code parses or builds (query values, environment values, the base64     *)
(* body, the storage key) is a tuple of one-character strings; text that   *)
(* the code only compares or passes on is a string.                        *)
(***************************************************************************)
EXTENDS Integers, Sequences, FiniteSets, TLC

VARIABLES env, clock, ticks, pc, event, response, route, calls

vars == <<env, clock, ticks, pc, event, response, route, calls>>

(***************************************************************************)
(* Python values.  A dict lookup yields an absent key, None, or a value.   *)
(***************************************************************************)
Absent == [k |-> "absent"]
Null == [k |-> "null"]
Str(s) == [k |-> "str", v |-> s]
Bool(b) == [k |-> "bool", v |-> b]
Dict(d) == [k |-> "dict", v |-> d]
PyNum(n) == [k |-> "int", v |-> n]

\* A Python result: a returned value or a raised exception.
Return(v) == [raised |-> FALSE, value |-> v]
Raise(e, detail) == [raised |-> TRUE, exc |-> e, detail |-> detail]

Digits == <<"0", "1", "2", "3", "4", "5", "6", "7", "8", "9">>

IsDigit(c) == \E i \in 1..10 : Digits[i] = c

DigitVal(c) == (CHOOSE i \in 1..10 : Digits[i] = c) - 1

IsSpace(c) == c \in {" ", "\t", "\n", "\r"}

\* The one element of a singleton set: Only({F(x) : x \in {e}}) computes e once.
Only(S) == CHOOSE x \in S : TRUE

\* s.strip()
Strip(s) ==
    LET keep == {i \in 1..Len(s) : ~IsSpace(s[i])}
    IN  IF keep = {} THEN <<>>
        ELSE SubSeq(s, CHOOSE i \in keep : \A j \in keep : i <= j,
                       CHOOSE i \in keep : \A j \in keep : j <= i)

\* The digits of a decimal literal read up to position n: single underscores are
\* allowed between digits.
RECURSIVE ParseDigits(_, _)
ParseDigits(s, n) ==
    IF n = 0 THEN [ok |-> TRUE, v |-> 0, afterDigit |-> FALSE]
    ELSE Only({IF ~p.ok THEN p
               ELSE IF IsDigit(s[n])
               THEN [ok |-> TRUE, v |-> p.v * 10 + DigitVal(s[n]), afterDigit |-> TRUE]
               ELSE IF s[n] = "_" /\ p.afterDigit
               THEN [ok |-> TRUE, v |-> p.v, afterDigit |-> FALSE]
               ELSE [ok |-> FALSE, v |-> 0, afterDigit |-> FALSE]
               : p \in {ParseDigits(s, n - 1)}})

\* int(x) of Python for x an int (a default) or a str (a query or environment value).
PyInt(x) ==
    IF x.k = "int" THEN Return(x.v)
    ELSE IF x.k # "str" THEN Raise("TypeError", "int() argument")
    ELSE Only({LET neg == s # <<>> /\ Head(s) = "-"
                   body == IF s # <<>> /\ Head(s) \in {"+", "-"} THEN Tail(s) ELSE s
               IN  Only({IF p.ok /\ p.afterDigit THEN Return(IF neg THEN 0 - p.v ELSE p.v)
                         ELSE Raise("ValueError", "invalid literal for int()")
                         : p \in {ParseDigits(body, Len(body))}})
               : s \in {Strip(x.v)}})

\* d.get(key, default) on a dict d modelled as a record of looked-up values.
Get(d, key, default) == IF d[key].k = "absent" THEN default ELSE d[key]

(***************************************************************************)
(* base64.b64decode(body) with validate=False: binascii.a2b_base64 skips   *)
(* every character outside the alphabet, stops at a complete padding, and  *)
(* raises when the data characters do not fill their last quad.            *)
(***************************************************************************)
B64Alphabet ==
    <<"A", "B", "C", "D", "E", "F", "G", "H", "I", "J", "K", "L", "M",
      "N", "O", "P", "Q", "R", "S", "T", "U", "V", "W", "X", "Y", "Z",
      "a", "b", "c", "d", "e", "f", "g", "h", "i", "j", "k", "l", "m",
      "n", "o", "p", "q", "r", "s", "t", "u", "v", "w", "x", "y", "z",
      "0", "1", "2", "3", "4", "5", "6", "7", "8", "9", "+", "/">>

IsB64(c) == \E i \in 1..64 : B64Alphabet[i] = c

B64Val(c) == (CHOOSE i \in 1..64 : B64Alphabet[i] = c) - 1

\* Characters str.encode('ascii') rejects.
NonAscii == {"é"}

B64Start == [quad |-> 0, left |-> 0, pads |-> 0, out |-> <<>>, done |-> FALSE]

\* One character of a2b_base64's loop.
B64Step(st, c) ==
    IF st.done THEN st
    ELSE IF c = "=" THEN
        IF st.quad >= 2 /\ st.quad + st.pads + 1 >= 4
        THEN [st EXCEPT !.pads = st.pads + 1, !.done = TRUE]
        ELSE IF st.quad >= 2 THEN [st EXCEPT !.pads = st.pads + 1] ELSE st
    ELSE IF ~IsB64(c) THEN st
    ELSE LET v == B64Val(c) IN
        CASE st.quad = 0 -> [st EXCEPT !.quad = 1, !.left = v, !.pads = 0]
          [] st.quad = 1 -> [st EXCEPT !.quad = 2, !.left = v % 16, !.pads = 0,
                                       !.out = Append(st.out, st.left * 4 + v \div 16)]
          [] st.quad = 2 -> [st EXCEPT !.quad = 3, !.left = v % 4, !.pads = 0,
                                       !.out = Append(st.out, st.left * 16 + v \div 4)]
          [] st.quad = 3 -> [st EXCEPT !.quad = 0, !.left = 0, !.pads = 0,
                                       !.out = Append(st.out, st.left * 64 + v)]

\* The decoder's state after the first n characters of s, started in st.
RECURSIVE B64Run(_, _, _)
B64Run(st, s, n) ==
    IF n = 0 THEN st ELSE Only({B64Step(p, s[n]) : p \in {B64Run(st, s, n - 1)}})

\* s * n
Repeat(s, n) == [i \in 1..(Len(s) * n) |-> s[((i - 1) % Len(s)) + 1]]

Min(a, b) == IF a < b THEN a ELSE b

\* Fill groups decoded one character at a time; the rest are run-length encoded.
LiteralGroups == 2

(***************************************************************************)
(* A body is the text  head \o "AAAA"^fill \o tail.  The first             *)
(* LiteralGroups groups of the fill are decoded character by character;    *)
(* after them the decoder's carry is zero, so every further "AAAA" adds    *)
(* exactly three zero bytes and leaves the state alone.  The bytes are     *)
(* kept as  pre \o 0^zeros \o post.                                        *)
(***************************************************************************)
b64decode(body) ==
    IF body.k # "str" THEN Raise("TypeError", "argument should be a bytes-like object or ASCII string")
    ELSE LET t == body.v
             lit == Min(t.fill, LiteralGroups)
             text == t.head \o t.tail
         IN  IF \E i \in 1..Len(text) : text[i] \in NonAscii
             THEN Raise("ValueError", "string argument should contain only ASCII characters")
             ELSE Only({
                  LET zeros == IF s1.done THEN 0 ELSE 3 * (t.fill - lit)
                  IN  Only({
                      IF ~s2.done /\ s2.quad # 0
                      THEN Raise("binascii.Error",
                                 IF s2.quad = 1 THEN "Invalid base64-encoded string"
                                 ELSE "Incorrect padding")
                      ELSE Return(IF zeros = 0
                                  THEN [pre |-> s1.out \o s2.out, zeros |-> 0, post |-> <<>>]
                                  ELSE [pre |-> s1.out, zeros |-> zeros, post |-> s2.out])
                      : s2 \in {B64Run([s1 EXCEPT !.out = <<>>], t.tail, Len(t.tail))}})
                  : s1 \in {B64Run(B64Start, t.head \o Repeat(<<"A", "A", "A", "A">>, lit),
                                   Len(t.head) + 4 * lit)}})

\* len(file_content)
BytesLen(b) == Len(b.pre) + b.zeros + Len(b.post)

\* file_content[:n]
BytesPrefix(b, n) ==
    SubSeq(b.pre \o Repeat(<<0>>, Min(b.zeros, n)) \o b.post, 1, Min(n, BytesLen(b)))

\* b'%PDF'
PdfMagic == <<37, 80, 68, 70>>

\* file_content.startswith(prefix)
StartsWith(b, prefix) == BytesPrefix(b, Len(prefix)) = prefix

(***************************************************************************)
(* The process environment and the clock.                                  *)
(***************************************************************************)
\* os.environ.get(name): None when the variable is unset.
EnvironGet(environ, name) == IF environ[name].k = "absent" THEN Null ELSE environ[name]

\* A test against None alone, in place of truthiness: the empty string passes.
TruthyNotNone(x) == x.k # "null" /\ (x.k = "bool" => x.v)

\* Python truthiness of None, a str (held as a string) or a bool.
Truthy(x) ==
    CASE x.k = "null" -> FALSE
      [] x.k = "str" -> x.v # ""
      [] x.k = "bool" -> x.v

Pad2(n) == <<Digits[(n \div 10) + 1], Digits[(n % 10) + 1]>>

Pad4(n) == Pad2(n \div 100) \o Pad2(n % 100)

\* datetime.strftime('%Y%m%d_%H%M%S')
strftime(t) ==
    Pad4(t.year) \o Pad2(t.month) \o Pad2(t.day) \o <<"_">>
        \o Pad2(t.hour) \o Pad2(t.minute) \o Pad2(t.second)

IsLeap(y) == (y % 4 = 0 /\ y % 100 # 0) \/ y % 400 = 0

DaysIn(y, m) ==
    IF m = 2 THEN (IF IsLeap(y) THEN 29 ELSE 28)
    ELSE IF m \in {4, 6, 9, 11} THEN 30 ELSE 31

\* The UTC wall clock one second later.
NextSecond(t) ==
    IF t.second < 59 THEN [t EXCEPT !.second = t.second + 1]
    ELSE IF t.minute < 59 THEN [t EXCEPT !.second = 0, !.minute = t.minute + 1]
    ELSE IF t.hour < 23 THEN [t EXCEPT !.second = 0, !.minute = 0, !.hour = t.hour + 1]
    ELSE IF t.day < DaysIn(t.year, t.month)
         THEN [t EXCEPT !.second = 0, !.minute = 0, !.hour = 0, !.day = t.day + 1]
    ELSE IF t.month < 12
         THEN [t EXCEPT !.second = 0, !.minute = 0, !.hour = 0, !.day = 1,
                        !.month = t.month + 1]
    ELSE [year |-> t.year + 1, month |-> 1, day |-> 1, hour |-> 0, minute |-> 0,
          second |-> 0]

\* str(uuid.uuid4())[:8]
UniqueId(uuid4) == SubSeq(uuid4, 1, 8)

\* filename.split('.')[-1], for a filename that holds a dot
LastSegment(s) ==
    LET dots == {i \in 1..Len(s) : s[i] = "."}
        last == CHOOSE i \in dots : \A j \in dots : j <= i
    IN  SubSeq(s, last + 1, Len(s))

\* filename.split('.')[-1] if '.' in filename else 'pdf'
FileExtension(filename) ==
    IF \E i \in 1..Len(filename) : filename[i] = "." THEN LastSegment(filename)
    ELSE <<"p", "d", "f">>

UploadsPrefix == <<"u", "p", "l", "o", "a", "d", "s", "/">>

\* f"uploads/{timestamp}_{unique_id}.{file_extension}"
S3Key(timestamp, unique_id, file_extension) ==
    UploadsPrefix \o timestamp \o <<"_">> \o unique_id \o <<".">> \o file_extension

(***************************************************************************)
(* The response envelope.  body holds the object json.dumps serialises.    *)
(***************************************************************************)
JsonHeaders == [n \in {"Content-Type"} |-> "application/json"]

error_response(status_code, message) ==
    [statusCode |-> status_code, headers |-> JsonHeaders, body |-> [error |-> message]]

(***************************************************************************)
(* The storage client.  s3 is what the backend does with the one call it   *)
(* may receive: answer, or raise with a detail text.                       *)
(***************************************************************************)
s3_generate_presigned_post(args, s3) ==
    IF s3.ok
    THEN Return([url |-> "https://" \o args.Bucket \o ".s3.amazonaws.com/",
                 fields |-> [key |-> args.Key, Fields |-> args.Fields,
                             policy |-> [conditions |-> args.Conditions,
                                         expires |-> args.ExpiresIn]]])
    ELSE Raise("ClientError", s3.detail)

s3_put_object(args, s3) ==
    IF s3.ok THEN Return([ETag |-> "etag"]) ELSE Raise("ClientError", s3.detail)

Call(op, args, result) == [op |-> op, args |-> args, ok |-> ~result.raised]

(***************************************************************************)
(* generate_presigned_url: the GET mode.                                   *)
(***************************************************************************)
\* event.get('queryStringParameters') or {}, then the three params.get lookups.
NoParams == [filename |-> Absent, contentType |-> Absent, maxSize |-> Absent]

QueryParams(ev) ==
    IF ev.queryStringParameters.k = "dict" THEN ev.queryStringParameters.v ELSE NoParams

DefaultFilename ==
    Str(<<"d", "o", "c", "u", "m", "e", "n", "t", ".", "p", "d", "f">>)

DefaultContentType == Str("application/pdf")

DefaultMaxSize == PyNum(100 * 1024 * 1024)

DefaultExpiry == PyNum(3600)

allowed_types == <<"application/pdf", "image/jpeg", "image/png">>

\* content_type not in allowed_types
NotAllowed(content_type) ==
    ~\E i \in 1..Len(allowed_types) : allowed_types[i] = content_type

\* ", ".join(allowed_types)
RECURSIVE Join(_, _, _)
Join(sep, xs, n) ==
    IF n = 0 THEN ""
    ELSE IF n = 1 THEN xs[1]
    ELSE Join(sep, xs, n - 1) \o sep \o xs[n]

ContentTypeMessage ==
    "Content type must be one of: " \o Join(", ", allowed_types, Len(allowed_types))

PostFields(content_type) ==
    [ContentType |-> content_type, ServerSideEncryption |-> "AES256"]

\* The length range opened at 0 in place of 1.
PostConditionsFromZero(content_type, max_size) ==
    <<[name |-> "Content-Type", value |-> content_type],
      [name |-> "content-length-range", min |-> 0, max |-> max_size],
      [name |-> "x-amz-server-side-encryption", value |-> "AES256"]>>

PostConditions(content_type, max_size) ==
    <<[name |-> "Content-Type", value |-> content_type],
      [name |-> "content-length-range", min |-> 1, max |-> max_size],
      [name |-> "x-amz-server-side-encryption", value |-> "AES256"]>>

\* The expiry is read from the environment alone.
Expiry(environ) == PyInt(Get(environ, "PRESIGNED_URL_EXPIRY", DefaultExpiry))

PresignedBody(presigned_post, s3_key, bucket_name, expiry) ==
    [uploadUrl |-> presigned_post.url, fields |-> presigned_post.fields,
     key |-> s3_key, bucket |-> bucket_name, expiresIn |-> expiry]

\* The body of the try block: what it returns or raises, and the calls it made.
PresignedTry(bucket_name, ev, environ, now, uuid4, s3) ==
    LET params == QueryParams(ev)
        filename == Get(params, "filename", DefaultFilename).v
        content_type == Get(params, "contentType", DefaultContentType).v
        max_size == PyInt(Get(params, "maxSize", DefaultMaxSize))
        s3_key == S3Key(strftime(now), UniqueId(uuid4), FileExtension(filename))
        expiry == Expiry(environ)
        args == [Bucket |-> bucket_name, Key |-> s3_key,
                 Fields |-> PostFields(content_type),
                 Conditions |-> PostConditions(content_type, max_size.value),
                 ExpiresIn |-> expiry.value]
        presigned_post == s3_generate_presigned_post(args, s3)
    IN  IF max_size.raised THEN [result |-> max_size, calls |-> <<>>]
        ELSE IF NotAllowed(content_type)
        THEN [result |-> Return(error_response(400, ContentTypeMessage)), calls |-> <<>>]
        ELSE IF expiry.raised THEN [result |-> expiry, calls |-> <<>>]
        ELSE IF presigned_post.raised
        THEN [result |-> presigned_post,
              calls |-> <<Call("generate_presigned_post", args, presigned_post)>>]
        ELSE [result |-> Return([statusCode |-> 200, headers |-> JsonHeaders,
                                 body |-> PresignedBody(presigned_post.value, s3_key,
                                                        bucket_name, expiry.value)]),
              calls |-> <<Call("generate_presigned_post", args, presigned_post)>>]

\* The failure's detail echoed to the caller.
PresignedFailureDetail(e) ==
    error_response(500, "Failed to generate upload URL: " \o e.detail)

PresignedFailure(e) == error_response(500, "Failed to generate upload URL")

\* try: ... except Exception as e: return error_response(500, ...)
generate_presigned_url(bucket_name, ev, environ, now, uuid4, s3) ==
    Only({[result |-> IF t.result.raised THEN Return(PresignedFailure(t.result))
                      ELSE t.result,
           calls |-> t.calls]
          : t \in {PresignedTry(bucket_name, ev, environ, now, uuid4, s3)}})

(***************************************************************************)
(* handle_direct_upload: the POST mode.                                    *)
(***************************************************************************)
DefaultBody == Str([head |-> <<>>, fill |-> 0, tail |-> <<>>])

DefaultMaxFileSizeMb == PyNum(6)

\* max_size_mb * 1024 * 1024
MaxUploadBytes(max_size_mb) == max_size_mb * 1024 * 1024

\* The size test made inclusive.
TooLargeOrEqual(file_size, max_size) == file_size >= max_size

\* file_size > max_size
TooLarge(file_size, max_size) == file_size > max_size

TooLargeMessage(max_size_mb) ==
    "File too large. Use presigned URL for files > " \o ToString(max_size_mb) \o "MB"

\* The signature test cut to its first byte.
NotPdfFirstByte(file_content) == ~StartsWith(file_content, <<37>>)

\* not file_content.startswith(b'%PDF')
NotPdf(file_content) == ~StartsWith(file_content, PdfMagic)

PdfExtension == <<"p", "d", "f">>

\* The write made without its content type, which the client then defaults.
PutArgsDefaultType(bucket_name, filename, file_content) ==
    [Bucket |-> bucket_name, Key |-> filename, Body |-> file_content,
     ContentType |-> "binary/octet-stream", ServerSideEncryption |-> "AES256"]

PutArgs(bucket_name, filename, file_content) ==
    [Bucket |-> bucket_name, Key |-> filename, Body |-> file_content,
     ContentType |-> "application/pdf", ServerSideEncryption |-> "AES256"]

UploadBody(filename, bucket_name, file_size) ==
    [message |-> "File uploaded successfully", filename |-> filename,
     bucket |-> bucket_name, size |-> file_size]

UploadTry(bucket_name, ev, environ, now, uuid4, s3) ==
    LET body == Get(ev, "body", DefaultBody)
        is_base64 == Get(ev, "isBase64Encoded", Bool(FALSE))
        file_content == b64decode(body)
        max_size_mb == PyInt(Get(environ, "MAX_FILE_SIZE_MB", DefaultMaxFileSizeMb))
        max_size == MaxUploadBytes(max_size_mb.value)
        file_size == BytesLen(file_content.value)
        filename == S3Key(strftime(now), UniqueId(uuid4), PdfExtension)
        args == PutArgs(bucket_name, filename, file_content.value)
        put == s3_put_object(args, s3)
    IN  IF ~Truthy(is_base64)
        THEN [result |-> Return(error_response(400, "File must be base64 encoded")),
              calls |-> <<>>]
        ELSE IF file_content.raised THEN [result |-> file_content, calls |-> <<>>]
        ELSE IF max_size_mb.raised THEN [result |-> max_size_mb, calls |-> <<>>]
        ELSE IF TooLarge(file_size, max_size)
        THEN [result |-> Return(error_response(413, TooLargeMessage(max_size_mb.value))),
              calls |-> <<>>]
        ELSE IF NotPdf(file_content.value)
        THEN [result |-> Return(error_response(400, "File is not a valid PDF")),
              calls |-> <<>>]
        ELSE IF put.raised
        THEN [result |-> put, calls |-> <<Call("put_object", args, put)>>]
        ELSE [result |-> Return([statusCode |-> 200, headers |-> JsonHeaders,
                                 body |-> UploadBody(filename, bucket_name, file_size)]),
              calls |-> <<Call("put_object", args, put)>>]

UploadFailure(e) == error_response(500, "Upload failed")

handle_direct_upload(bucket_name, ev, environ, now, uuid4, s3) ==
    Only({[result |-> IF t.result.raised THEN Return(UploadFailure(t.result))
                      ELSE t.result,
           calls |-> t.calls]
          : t \in {UploadTry(bucket_name, ev, environ, now, uuid4, s3)}})

(***************************************************************************)
(* lambda_handler: the dispatcher.                                         *)
(***************************************************************************)
\* x.get(key, {}) on a dict; on None the attribute lookup raises.
GetDict(x, key) ==
    IF x.k # "dict" THEN Raise("AttributeError", "'NoneType' object has no attribute 'get'")
    ELSE IF x.v[key].k = "absent" THEN Return(Dict([http |-> Absent, method |-> Absent]))
    ELSE Return(x.v[key])

\* The method defaulted to GET in place of POST.
HttpMethodDefaultGet(ev) ==
    LET ctx == GetDict(Dict(ev), "requestContext")
        http == IF ctx.raised THEN ctx ELSE GetDict(ctx.value, "http")
    IN  IF http.raised THEN http
        ELSE IF http.value.k # "dict"
        THEN Raise("AttributeError", "'NoneType' object has no attribute 'get'")
        ELSE Return(Get(http.value.v, "method", Str("GET")))

\* event.get('requestContext', {}).get('http', {}).get('method', 'POST')
HttpMethod(ev) ==
    LET ctx == GetDict(Dict(ev), "requestContext")
        http == IF ctx.raised THEN ctx ELSE GetDict(ctx.value, "http")
    IN  IF http.raised THEN http
        ELSE IF http.value.k # "dict"
        THEN Raise("AttributeError", "'NoneType' object has no attribute 'get'")
        ELSE Return(Get(http.value.v, "method", Str("POST")))

Routed(r, name) == [result |-> r.result, calls |-> r.calls, route |-> name]

\* The one handler a method is routed to.
Dispatch(name, bucket_name, ev, environ, now, uuid4, s3) ==
    Only({Routed(r, name)
          : r \in {IF name = "generate_presigned_url"
                   THEN generate_presigned_url(bucket_name, ev, environ, now, uuid4, s3)
                   ELSE handle_direct_upload(bucket_name, ev, environ, now, uuid4, s3)}})

HandlerTry(ev, environ, now, uuid4, s3) ==
    LET bucket_name == EnvironGet(environ, "S3_BUCKET_NAME")
        http_method == HttpMethod(ev)
    IN  IF ~Truthy(bucket_name)
        THEN [result |-> Return(error_response(500, "Internal server error")),
              calls |-> <<>>, route |-> "none"]
        ELSE IF http_method.raised
        THEN [result |-> http_method, calls |-> <<>>, route |-> "none"]
        ELSE IF http_method.value = Str("GET")
        THEN Dispatch("generate_presigned_url", bucket_name.v, ev, environ, now, uuid4, s3)
        ELSE IF http_method.value = Str("POST")
        THEN Dispatch("handle_direct_upload", bucket_name.v, ev, environ, now, uuid4, s3)
        ELSE [result |-> Return(error_response(405, "Method not allowed")),
              calls |-> <<>>, route |-> "none"]

\* The dispatcher without its except clause: what the try block raises escapes.
lambda_handler_uncaught(ev, environ, now, uuid4, s3) ==
    HandlerTry(ev, environ, now, uuid4, s3)

UnexpectedFailure(e) == error_response(500, "Internal server error")

lambda_handler(ev, environ, now, uuid4, s3) ==
    Only({[t EXCEPT !.result = IF t.result.raised
                               THEN Return(UnexpectedFailure(t.result))
                               ELSE t.result]
          : t \in {HandlerTry(ev, environ, now, uuid4, s3)}})

(***************************************************************************)
(* The inputs: environments, clocks, identifiers, backend outcomes and     *)
(* inbound requests.                                                       *)
(***************************************************************************)
\* Seconds the clock may advance in one behaviour.
MaxTicks == 1

BucketNames == {Absent, Str(""), Str("uploads-bucket")}

ExpiryValues == {Absent, Str(<<"9", "0", "0">>), Str(<<"s", "o", "o", "n">>)}

MaxMbValues == {Absent, Str(<<"1">>), Str(<<"x">>)}

Environments ==
    [S3_BUCKET_NAME : BucketNames, PRESIGNED_URL_EXPIRY : ExpiryValues,
     MAX_FILE_SIZE_MB : MaxMbValues]

StartClocks ==
    {[year |-> 2024, month |-> 2, day |-> 29, hour |-> 23, minute |-> 59, second |-> 59],
     [year |-> 2026, month |-> 11, day |-> 1, hour |-> 9, minute |-> 7, second |-> 3]}

Uuids ==
    {<<"3", "f", "2", "a", "9", "c", "1", "e", "-", "7", "b", "4", "d", "-", "4", "e", "8", "a", "-", "9", "c", "0", "f", "-", "1", "a", "2", "b", "3", "c", "4", "d", "5", "e", "6", "f">>,
     <<"0", "0", "0", "0", "0", "0", "0", "0", "-", "0", "0", "0", "0", "-", "4", "0", "0", "0", "-", "8", "0", "0", "0", "-", "0", "0", "0", "0", "0", "0", "0", "0", "0", "0", "0", "0">>}

BackendDetail == "AccessDenied: arn:aws:s3:::uploads-bucket"

S3Outcomes == {[ok |-> TRUE], [ok |-> FALSE, detail |-> BackendDetail]}

Methods == {"GET", "POST", "PUT", "DELETE", "get"}

RequestContexts ==
    {Absent, Null, Dict([http |-> Absent]), Dict([http |-> Null]),
     Dict([http |-> Dict([method |-> Absent])]), Dict([http |-> Dict([method |-> Null])])}
        \cup {Dict([http |-> Dict([method |-> Str(m)])]) : m \in Methods}

Filenames ==
    {Absent, Str(<<"p", "h", "o", "t", "o", ".", "j", "p", "e", "g">>), Str(<<"n", "o", "t", "e", "s">>), Str(<<"a", ".", "t", "a", "r", ".", "g", "z">>), Str(<<"o", "d", "d", ".">>)}

ContentTypes ==
    {Absent, Str("application/pdf"), Str("image/jpeg"), Str("image/png"),
     Str("text/plain"), Str("APPLICATION/PDF")}

MaxSizes ==
    {Absent, Str(<<"5", "2", "4", "2", "8", "8", "0">>), Str(<<"0">>), Str(<<"-", "1">>), Str(<<" ", "4", "2", "\n">>),
     Str(<<"1", "_", "0">>), Str(<<"a", "b", "c">>), Str(<<"1", ".", "5">>), Str(<<>>)}

Queries ==
    {Absent, Null}
        \cup {Dict(q) : q \in [filename : Filenames, contentType : ContentTypes,
                               maxSize : MaxSizes]}

\* "JVBERi0x" is %PDF-1, "SGVsbG8h" is Hello!, "JVBERg==" is %PDF and its padding,
\* "JVRFU1Qh" is %TEST!.
Heads == {<<>>, <<"J", "V", "R", "F", "U", "1", "Q", "h">>,
          <<"J", "V", "B", "E", "R", "i", "0", "x">>, <<"S", "G", "V", "s", "b", "G", "8", "h">>, <<"J", "V", "B", "E", "R", "g", "=", "=">>}

\* With the head %PDF-1 the decoded size is 6 + 3 * fill + (bytes of the tail):
\* 100 bytes, and one below, at and one above 1 MiB and 6 MiB, and 7 MiB.
Fills == {0, 31, 349523, 2097149, 2097150, 2446675}

Tails ==
    {<<>>, <<"Q", "Q", "=", "=">>, <<"Q", "U", "E", "=">>, <<"Q", "Q">>, <<"Q">>,
     <<"Q", "!", "Q", "=", "\n", "=">>, <<"é">>}

Bodies ==
    {Absent, Null} \cup {Str(b) : b \in [head : Heads, fill : Fills, tail : Tails]}

Flags == {Absent, Bool(FALSE), Bool(TRUE)}

PdfBody == Str([head |-> <<"J", "V", "B", "E", "R", "i", "0", "x">>, fill |-> 31, tail |-> <<"Q", "Q", "=", "=">>])

BadQuery ==
    Dict([filename |-> Absent, contentType |-> Str("text/plain"), maxSize |-> Absent])

GetContext == Dict([http |-> Dict([method |-> Str("GET")])])

PostContext == Dict([http |-> Dict([method |-> Str("POST")])])

\* The requests: every routing shape, every query on GET, every body on POST.
Events ==
    [requestContext : RequestContexts, queryStringParameters : {Absent, BadQuery},
     body : {Absent, PdfBody}, isBase64Encoded : {Absent, Bool(TRUE)}]
        \cup [requestContext : {GetContext}, queryStringParameters : Queries,
              body : {Absent}, isBase64Encoded : {Absent}]
        \cup [requestContext : {PostContext, Absent}, queryStringParameters : {Absent},
              body : Bodies, isBase64Encoded : Flags]

NoEvent ==
    [requestContext |-> Absent, queryStringParameters |-> Absent, body |-> Absent,
     isBase64Encoded |-> Absent]

NoResponse == Return([statusCode |-> 0, headers |-> JsonHeaders, body |-> [error |-> ""]])

(***************************************************************************)
(* The state machine: the host invokes the handler, which runs to          *)
(* completion; the front door takes the response.                          *)
(***************************************************************************)
Init ==
    /\ env \in Environments
    /\ clock \in StartClocks
    /\ ticks = 0
    /\ pc = "idle"
    /\ event = NoEvent
    /\ response = NoResponse
    /\ route = "none"
    /\ calls = <<>>

\* One second passes between invocations.
Tick ==
    /\ pc = "idle"
    /\ ticks < MaxTicks
    /\ clock' = NextSecond(clock)
    /\ ticks' = ticks + 1
    /\ UNCHANGED <<env, pc, event, response, route, calls>>

\* One invocation of lambda_handler, from the request to the returned envelope.
Invoke ==
    /\ pc = "idle"
    /\ \E ev \in Events, uuid4 \in Uuids, s3 \in S3Outcomes :
          \E r \in {lambda_handler(ev, env, clock, uuid4, s3)} :
              /\ event' = ev
              /\ response' = r.result
              /\ route' = r.route
              /\ calls' = r.calls
    /\ pc' = "done"
    /\ UNCHANGED <<env, clock, ticks>>

\* The front door takes the envelope; nothing of the invocation is kept.
Deliver ==
    /\ pc = "done"
    /\ pc' = "idle"
    /\ event' = NoEvent
    /\ response' = NoResponse
    /\ route' = "none"
    /\ calls' = <<>>
    /\ UNCHANGED <<env, clock, ticks>>

Next == Tick \/ Invoke \/ Deliver

Spec == Init /\ [][Next]_vars

(***************************************************************************)
(* What an invocation was given and what it returned.                      *)
(***************************************************************************)
Done == pc = "done"

Status == response.value.statusCode

ErrorIs(message) == response.value.body = [error |-> message]

BucketConfigured == env.S3_BUCKET_NAME.k = "str" /\ env.S3_BUCKET_NAME.v # ""

\* No level of requestContext.http is null.
WellFormed ==
    /\ event.requestContext.k # "null"
    /\ event.requestContext.k = "dict" => event.requestContext.v.http.k # "null"

\* The method entry of the request: absent, null or a string.
RequestMethod ==
    IF event.requestContext.k = "dict" /\ event.requestContext.v.http.k = "dict"
    THEN event.requestContext.v.http.v.method
    ELSE Absent

IsGet == WellFormed /\ RequestMethod = Str("GET")

IsPost == WellFormed /\ RequestMethod \in {Absent, Str("POST")}

Param(name) ==
    IF event.queryStringParameters.k = "dict" THEN event.queryStringParameters.v[name]
    ELSE Absent

IsInteger(x) == x.k = "absent" \/ ~PyInt(x).raised

ConfiguredExpiry ==
    IF env.PRESIGNED_URL_EXPIRY.k = "absent" THEN 3600
    ELSE PyInt(env.PRESIGNED_URL_EXPIRY).value

RequestedMaxSize ==
    IF Param("maxSize").k = "absent" THEN 104857600 ELSE PyInt(Param("maxSize")).value

LimitBytes ==
    (IF env.MAX_FILE_SIZE_MB.k = "absent" THEN 6 ELSE PyInt(env.MAX_FILE_SIZE_MB).value)
        * 1024 * 1024

EnvironmentValid == IsInteger(env.PRESIGNED_URL_EXPIRY) /\ IsInteger(env.MAX_FILE_SIZE_MB)

\* The body as base64 decodes it (an absent body is the empty text).
Decoded == b64decode(IF event.body.k = "absent" THEN DefaultBody ELSE event.body)

Flagged == event.isBase64Encoded = Bool(TRUE)

BackendFailed == calls # <<>> /\ ~calls[Len(calls)].ok

SupportedTypes == {"application/pdf", "image/jpeg", "image/png"}

GetShape == DOMAIN response.value.body = {"uploadUrl", "fields", "key", "bucket", "expiresIn"}

PostShape == DOMAIN response.value.body = {"message", "filename", "bucket", "size"}

ErrorShape == DOMAIN response.value.body = {"error"}

HexDigits ==
    {"0", "1", "2", "3", "4", "5", "6", "7", "8", "9", "a", "b", "c", "d", "e", "f"}

\* uploads/<8 digits>_<6 digits>_<8 hex characters>.pdf
IsPdfKey(key) ==
    /\ Len(key) = 36
    /\ SubSeq(key, 1, 8) = <<"u", "p", "l", "o", "a", "d", "s", "/">>
    /\ \A i \in 9..16 : IsDigit(key[i])
    /\ key[17] = "_"
    /\ \A i \in 18..23 : IsDigit(key[i])
    /\ key[24] = "_"
    /\ \A i \in 25..32 : key[i] \in HexDigits
    /\ SubSeq(key, 33, 36) = <<".", "p", "d", "f">>

(***************************************************************************)
(* C1: with the bucket name unset or empty, every invocation returns 500   *)
(* "Internal server error" and makes no storage call.                      *)
(***************************************************************************)
C1_MissingBucketIs500 ==
    (Done /\ ~BucketConfigured) =>
        /\ ~response.raised
        /\ Status = 500
        /\ ErrorIs("Internal server error")
        /\ calls = <<>>
        /\ route = "none"

C1_Witness ==
    /\ Done
    /\ env.S3_BUCKET_NAME = Str("")
    /\ IsGet
    /\ Param("contentType") = Str("image/png")
    /\ Status = 500

(***************************************************************************)
(* C2: with the bucket configured, GET goes to the presigned-URL issuer    *)
(* only, POST and an absent method go to the direct upload handler only,   *)
(* and any other method value is answered 405 "Method not allowed" with no *)
(* storage call.                                                           *)
(***************************************************************************)
C2_RoutingByMethod ==
    (Done /\ BucketConfigured /\ WellFormed) =>
        /\ RequestMethod = Str("GET") =>
              /\ route = "generate_presigned_url"
              /\ \A i \in 1..Len(calls) : calls[i].op = "generate_presigned_post"
              /\ ~PostShape
        /\ RequestMethod \in {Absent, Str("POST")} =>
              /\ route = "handle_direct_upload"
              /\ \A i \in 1..Len(calls) : calls[i].op = "put_object"
              /\ ~GetShape
        /\ RequestMethod \notin {Absent, Str("GET"), Str("POST")} =>
              /\ route = "none"
              /\ Status = 405
              /\ ErrorIs("Method not allowed")
              /\ calls = <<>>

C2_Witness ==
    /\ Done
    /\ BucketConfigured
    /\ event.requestContext = Absent
    /\ Flagged
    /\ route = "handle_direct_upload"
    /\ Status = 200

(***************************************************************************)
(* C3: every invocation returns an envelope and raises nothing; the status *)
(* is one of 200, 400, 405, 413, 500; the Content-Type header is           *)
(* application/json; the body is the GET success shape only with 200 on a  *)
(* GET, the POST success shape only with 200 on a POST, and {error} for    *)
(* every other status.                                                     *)
(***************************************************************************)
C3_AlwaysAnEnvelope ==
    Done =>
        /\ ~response.raised
        /\ DOMAIN response.value = {"statusCode", "headers", "body"}
        /\ Status \in {200, 400, 405, 413, 500}
        /\ "Content-Type" \in DOMAIN response.value.headers
        /\ response.value.headers["Content-Type"] = "application/json"
        /\ GetShape \/ PostShape \/ ErrorShape
        /\ GetShape => Status = 200 /\ IsGet
        /\ PostShape => Status = 200 /\ IsPost
        /\ Status # 200 => ErrorShape
        /\ Status = 200 => ~ErrorShape

C3_Witness ==
    /\ Done
    /\ BucketConfigured
    /\ event.requestContext = Null
    /\ Status = 500
    /\ ErrorIs("Internal server error")

(***************************************************************************)
(* C4 as stated: a POST flagged base64 whose body decodes to bytes that do *)
(* not start with %PDF is answered 400 "File is not a valid PDF" whatever  *)
(* the decoded size.                                                       *)
(***************************************************************************)
C4_NotPdfIs400AnySize ==
    (Done /\ BucketConfigured /\ EnvironmentValid /\ IsPost /\ Flagged
          /\ ~Decoded.raised /\ ~StartsWith(Decoded.value, <<37, 80, 68, 70>>)) =>
        Status = 400 /\ ErrorIs("File is not a valid PDF")

(***************************************************************************)
(* C4 amended: such a POST is answered 400 "File is not a valid PDF" when  *)
(* the decoded size is at most the size limit, and 413 when it is above    *)
(* the limit; no storage call is made in either case.                      *)
(***************************************************************************)
C4_NotPdfIs400WithinLimit ==
    (Done /\ BucketConfigured /\ EnvironmentValid /\ IsPost /\ Flagged
          /\ ~Decoded.raised /\ ~StartsWith(Decoded.value, <<37, 80, 68, 70>>)) =>
        /\ calls = <<>>
        /\ BytesLen(Decoded.value) <= LimitBytes =>
              Status = 400 /\ ErrorIs("File is not a valid PDF")
        /\ BytesLen(Decoded.value) > LimitBytes => Status = 413

C4_Witness ==
    /\ Done
    /\ BucketConfigured
    /\ EnvironmentValid
    /\ IsPost
    /\ Flagged
    /\ ~Decoded.raised
    /\ BytesPrefix(Decoded.value, 1) = <<37>>
    /\ ~StartsWith(Decoded.value, <<37, 80, 68, 70>>)
    /\ BytesLen(Decoded.value) = LimitBytes
    /\ Status = 400

(***************************************************************************)
(* C5 as stated: a GET whose contentType is outside the three allowed      *)
(* types is answered 400 with the message listing those three types,       *)
(* whatever filename and maxSize are, and no credential is requested.      *)
(***************************************************************************)
C5_BadContentTypeIs400 ==
    (Done /\ BucketConfigured /\ EnvironmentValid /\ IsGet
          /\ Param("contentType").k = "str"
          /\ Param("contentType").v \notin SupportedTypes) =>
        /\ Status = 400
        /\ ErrorIs("Content type must be one of: application/pdf, image/jpeg, image/png")
        /\ calls = <<>>

(***************************************************************************)
(* C6: a POST flagged base64 whose decoded bytes start with %PDF is        *)
(* answered 413, with no storage write, exactly when the decoded length is *)
(* strictly greater than the limit in MB (default 6) times 1024 * 1024; a  *)
(* length equal to the limit is not rejected for size.                     *)
(***************************************************************************)
C6_TooLargeExactlyAboveLimit ==
    (Done /\ BucketConfigured /\ IsInteger(env.MAX_FILE_SIZE_MB) /\ IsPost /\ Flagged
          /\ ~Decoded.raised /\ StartsWith(Decoded.value, <<37, 80, 68, 70>>)) =>
        /\ Status = 413 <=> BytesLen(Decoded.value) > LimitBytes
        /\ Status = 413 => calls = <<>>
        /\ BytesLen(Decoded.value) <= LimitBytes => Len(calls) = 1

C6_Witness ==
    /\ Done
    /\ BucketConfigured
    /\ env.MAX_FILE_SIZE_MB = Absent
    /\ IsPost
    /\ Flagged
    /\ ~Decoded.raised
    /\ StartsWith(Decoded.value, <<37, 80, 68, 70>>)
    /\ BytesLen(Decoded.value) = 6291456
    /\ Status = 200

(***************************************************************************)
(* C7: an invocation makes at most one storage call, the one of its mode;  *)
(* when that call fails the invocation returns 500 with the fixed text of  *)
(* its mode and nothing of the failure's detail.                           *)
(***************************************************************************)
C7_OneCallNoRetryGenericFailure ==
    Done =>
        /\ Len(calls) <= 1
        /\ calls # <<>> =>
              calls[1].op = (IF IsGet THEN "generate_presigned_post" ELSE "put_object")
        /\ BackendFailed =>
              /\ Status = 500
              /\ IsGet => ErrorIs("Failed to generate upload URL")
              /\ ~IsGet => ErrorIs("Upload failed")

C7_Witness ==
    /\ Done
    /\ IsGet
    /\ BackendFailed
    /\ Status = 500

(***************************************************************************)
(* C8: a GET with a supported contentType asks the backend for one         *)
(* credential whose conditions are the requested Content-Type, the         *)
(* content-length-range [1, maxSize] (default 100 MiB) and AES256          *)
(* encryption, with the configured expiry (default 3600); when the backend *)
(* answers, the result is 200 with the key and bucket passed to the        *)
(* backend and expiresIn the configured expiry, whatever the request holds.*)
(***************************************************************************)
C8_PresignedForSupportedTypes ==
    (Done /\ BucketConfigured /\ IsGet
          /\ Param("contentType").k = "str" /\ Param("contentType").v \in SupportedTypes
          /\ IsInteger(Param("maxSize")) /\ IsInteger(env.PRESIGNED_URL_EXPIRY)) =>
        /\ Len(calls) = 1
        /\ calls[1].op = "generate_presigned_post"
        /\ calls[1].args.Bucket = env.S3_BUCKET_NAME.v
        /\ calls[1].args.Conditions =
              <<[name |-> "Content-Type", value |-> Param("contentType").v],
                [name |-> "content-length-range", min |-> 1, max |-> RequestedMaxSize],
                [name |-> "x-amz-server-side-encryption", value |-> "AES256"]>>
        /\ calls[1].args.ExpiresIn = ConfiguredExpiry
        /\ calls[1].ok =>
              /\ Status = 200
              /\ GetShape
              /\ response.value.body.key = calls[1].args.Key
              /\ response.value.body.bucket = calls[1].args.Bucket
              /\ response.value.body.expiresIn = ConfiguredExpiry

C8_Witness ==
    /\ Done
    /\ IsGet
    /\ Param("contentType") = Str("image/jpeg")
    /\ Param("maxSize") = Str(<<"5", "2", "4", "2", "8", "8", "0">>)
    /\ env.PRESIGNED_URL_EXPIRY = Str(<<"9", "0", "0">>)
    /\ Status = 200
    /\ response.value.body.expiresIn = 900

(***************************************************************************)
(* C9: a POST is answered 200 only if it is flagged base64, its decoded    *)
(* bytes are within the size limit and start with %PDF, and exactly one    *)
(* put_object succeeded; then size is the decoded length, filename is the  *)
(* key written (uploads/<timestamp>_<8 hex>.pdf), bucket is the configured *)
(* bucket, and the object is the decoded bytes, application/pdf, AES256.   *)
(***************************************************************************)
C9_UploadSuccess ==
    (Done /\ IsPost /\ Status = 200) =>
        /\ BucketConfigured
        /\ Flagged
        /\ ~Decoded.raised
        /\ BytesLen(Decoded.value) <= LimitBytes
        /\ StartsWith(Decoded.value, <<37, 80, 68, 70>>)
        /\ Len(calls) = 1
        /\ calls[1].op = "put_object"
        /\ calls[1].ok
        /\ PostShape
        /\ response.value.body.size = BytesLen(Decoded.value)
        /\ response.value.body.filename = calls[1].args.Key
        /\ IsPdfKey(calls[1].args.Key)
        /\ response.value.body.bucket = env.S3_BUCKET_NAME.v
        /\ calls[1].args.Bucket = env.S3_BUCKET_NAME.v
        /\ calls[1].args.Body = Decoded.value
        /\ calls[1].args.ContentType = "application/pdf"
        /\ calls[1].args.ServerSideEncryption = "AES256"

C9_Witness ==
    /\ Done
    /\ IsPost
    /\ Status = 200
    /\ response.value.body.size = 100

(***************************************************************************)
(* C10 as stated: with the bucket configured and no storage call failing,  *)
(* no request yields 500; every client error is 400, 405 or 413.           *)
(***************************************************************************)
C10_No500FromClientInput ==
    (Done /\ BucketConfigured /\ EnvironmentValid /\ WellFormed /\ ~BackendFailed) =>
        Status # 500

====
